---------------------------- MODULE Spec2Model ----------------------------
(***************************************************************************)
(* toggl-rs: retrieval of time entries from the Toggl reports API          *)
(* (src/src/client.rs) and their aggregation into a bill report            *)
(* (src/src/main.rs).                                                      *)
(*                                                                         *)
(* Conventions.                                                            *)
(*  - A Rust String that the program compares (`day <= last_billed_date`)  *)
(*    is a sequence of one-character strings, so that the byte-wise        *)
(*    lexicographic order of String is computed, not assumed.  Strings     *)
(*    that are only built and passed on (the since/until of a window, an   *)
(*    error message) are TLA+ strings.                                     *)
(*  - The text of a timestamp field is the record of the components an     *)
(*    RFC 3339 text spells out ([y, mo, d, h, mi, s, off], off in minutes, *)
(*    whole seconds), or a TLA+ string for a text that has no such shape.  *)
(*  - An f64 amount is an exact fraction <<numerator, denominator>> in     *)
(*    lowest terms (the rounding of a quotient to the nearest double is    *)
(*    not represented).                                                    *)
(*  - Result<T> is [ok |-> TRUE, val |-> v] or [ok |-> FALSE, err |-> e].  *)
(***************************************************************************)
EXTENDS Integers, Sequences, FiniteSets, TLC

(* ------------------------------ bounds -------------------------------- *)

\* Longest ReportDetails.data drawn as input of build_summary.
MaxEntries == 3
\* Largest total_count the source reports for a window (get_year_data runs).
MaxTotalCount == 127
\* The current year is at most StartYear + MaxYearsAhead (get_billable_report runs).
MaxYearsAhead == 1
\* Years before/after FirstYear from which ReportYear::new draws its arguments.
YearSpan == 6
\* Calls of ReportYear::next made on one iterator.
MaxCalls == 9
\* Largest and (negated) smallest day total drawn for one day of a Summary.
MaxMinutes == 130
NegMinutes == 5

(* ------------------------- program constants -------------------------- *)

PageSize == 50
StartYear == 2022
FlatRate == 30
FirstYear == 2018

(* ------------------------------ strings ------------------------------- *)

DigitChars == <<"0", "1", "2", "3", "4", "5", "6", "7", "8", "9">>

\* Byte value of a character of a day-key.
Ord(c) ==
    IF c = "-" THEN 45
    ELSE 47 + (CHOOSE i \in 1..10 : DigitChars[i] = c)

\* String's `<`, the comparison a cutoff that excludes its own day would use.
RECURSIVE StrLt(_, _)
StrLt(a, b) ==
    IF b = <<>> THEN FALSE
    ELSE IF a = <<>> THEN TRUE
    ELSE IF Ord(a[1]) < Ord(b[1]) THEN TRUE
    ELSE IF Ord(a[1]) > Ord(b[1]) THEN FALSE
    ELSE StrLt(Tail(a), Tail(b))

\* String's `<=`: lexicographic on bytes, a proper prefix is smaller.
RECURSIVE StrLe(_, _)
StrLe(a, b) ==
    IF a = <<>> THEN TRUE
    ELSE IF b = <<>> THEN FALSE
    ELSE IF Ord(a[1]) < Ord(b[1]) THEN TRUE
    ELSE IF Ord(a[1]) > Ord(b[1]) THEN FALSE
    ELSE StrLe(Tail(a), Tail(b))

\* Decimal digits of n >= 0, zero-padded on the left to at least w characters.
RECURSIVE Pad(_, _)
Pad(n, w) ==
    IF n < 10 /\ w <= 1 THEN <<DigitChars[n + 1]>>
    ELSE Pad(n \div 10, w - 1) \o <<DigitChars[(n % 10) + 1]>>

(* ------------------------- integer arithmetic ------------------------- *)

\* Rust's `/` on signed integers: the quotient truncated toward zero.
RustDiv(a, b) ==
    IF a >= 0 THEN a \div b ELSE 0 - ((0 - a) \div b)

RECURSIVE Gcd(_, _)
Gcd(a, b) == IF b = 0 THEN a ELSE Gcd(b, a % b)

Abs(a) == IF a < 0 THEN 0 - a ELSE a

\* The fraction n/d (d > 0) in lowest terms.
Frac(n, d) ==
    LET g == Gcd(Abs(n), d) IN <<RustDiv(n, g), d \div g>>

FracAdd(p, q) == Frac(p[1] * q[2] + q[1] * p[2], p[2] * q[2])

(* ------------------- chrono: timestamps and durations ------------------ *)

IsLeap(y) == (y % 4 = 0 /\ y % 100 # 0) \/ y % 400 = 0

DaysInMonth(y, mo) ==
    IF mo = 2 THEN (IF IsLeap(y) THEN 29 ELSE 28)
    ELSE IF mo \in {4, 6, 9, 11} THEN 30 ELSE 31

\* Days from 1970-01-01 to the civil date y-mo-d (proleptic Gregorian).
DaysFromCivil(y, mo, d) ==
    LET yy  == IF mo <= 2 THEN y - 1 ELSE y
        era == yy \div 400
        yoe == yy - era * 400
        mp  == IF mo > 2 THEN mo - 3 ELSE mo + 9
        doy == ((153 * mp + 2) \div 5) + d - 1
        doe == yoe * 365 + (yoe \div 4) - (yoe \div 100) + doy
    IN  era * 146097 + doe - 719468

\* The civil date <<y, mo, d>> that lies z days after 1970-01-01.
CivilFromDays(z) ==
    LET zz  == z + 719468
        era == zz \div 146097
        doe == zz - era * 146097
        yoe == (doe - (doe \div 1460) + (doe \div 36524) - (doe \div 146096)) \div 365
        doy == doe - (365 * yoe + (yoe \div 4) - (yoe \div 100))
        mp  == (5 * doy + 2) \div 153
        d   == doy - ((153 * mp + 2) \div 5) + 1
        mo  == IF mp < 10 THEN mp + 3 ELSE mp - 9
        y   == yoe + era * 400
    IN  <<IF mo <= 2 THEN y + 1 ELSE y, mo, d>>

\* Whether the text of a field has the shape of an RFC 3339 timestamp.
IsShaped(f) == "y" \in DOMAIN f

\* DateTime::parse_from_rfc3339: a DateTime<FixedOffset> is the instant in
\* seconds since 1970-01-01T00:00:00Z together with the offset the text
\* carries; a text without the shape, or with a component out of range, is
\* an error.
parse_from_rfc3339(f) ==
    IF ~IsShaped(f) THEN [ok |-> FALSE]
    ELSE IF ~(/\ f.mo \in 1..12
              /\ f.d \in 1..DaysInMonth(f.y, f.mo)
              /\ f.h \in 0..23 /\ f.mi \in 0..59 /\ f.s \in 0..59
              /\ f.off \in (0 - 1439)..1439)
         THEN [ok |-> FALSE]
    ELSE [ok |-> TRUE,
          val |-> [utc |-> DaysFromCivil(f.y, f.mo, f.d) * 86400
                            + f.h * 3600 + f.mi * 60 + f.s - f.off * 60,
                   off |-> f.off]]

\* `end - start`: the signed duration between two instants, in seconds.
Sub(end, start) == end.utc - start.utc

\* Duration::num_minutes: num_seconds() / 60 in Rust's integer division.
num_minutes(diff) == RustDiv(diff, 60)

\* The calendar date of the instant itself (offset dropped), as "%Y-%m-%d".
format_date_utc(dt) ==
    LET c == CivilFromDays(dt.utc \div 86400)
    IN  Pad(c[1], 4) \o <<"-">> \o Pad(c[2], 2) \o <<"-">> \o Pad(c[3], 2)

\* start.format("%Y-%m-%d"): the calendar date of the instant, seen in the
\* offset the DateTime carries.
format_date(dt) ==
    LET c == CivilFromDays((dt.utc + dt.off * 60) \div 86400)
    IN  Pad(c[1], 4) \o <<"-">> \o Pad(c[2], 2) \o <<"-">> \o Pad(c[3], 2)

(* --------------------------- main.rs: summary -------------------------- *)

\* The two parses of the loop body with their `?`: start first, then end;
\* the error carries the message prefix and the raw text of the field.
ParseEntry(entry) ==
    LET start == parse_from_rfc3339(entry.start)
        end   == parse_from_rfc3339(entry.end)
    IN  IF ~start.ok
        THEN [ok |-> FALSE, err |-> <<"Failed to parse start date: ", entry.start>>]
        ELSE IF ~end.ok
        THEN [ok |-> FALSE, err |-> <<"Failed to parse end date: ", entry.end>>]
        ELSE [ok |-> TRUE, val |-> [start |-> start.val, end |-> end.val]]

\* summary.entry(day).and_modify(|x| *x += m).or_insert_with(|| m)
Accumulate(summary, day, m) ==
    IF day \in DOMAIN summary
    THEN [summary EXCEPT ![day] = @ + m]
    ELSE summary @@ (day :> m)

\* The loop of build_summary with an entry that does not parse passed over.
RECURSIVE SummaryLoopSkipping(_, _, _)
SummaryLoopSkipping(data, i, summary) ==
    IF i > Len(data) THEN [ok |-> TRUE, val |-> summary]
    ELSE LET p == ParseEntry(data[i])
         IN  IF ~p.ok THEN SummaryLoopSkipping(data, i + 1, summary)
             ELSE SummaryLoopSkipping(data, i + 1,
                      Accumulate(summary,
                                 format_date(p.val.start),
                                 num_minutes(Sub(p.val.end, p.val.start))))

\* The loop of build_summary over data[i..], with the summary built so far.
RECURSIVE SummaryLoop(_, _, _)
SummaryLoop(data, i, summary) ==
    IF i > Len(data) THEN [ok |-> TRUE, val |-> summary]
    ELSE LET p == ParseEntry(data[i])
         IN  IF ~p.ok THEN [ok |-> FALSE, err |-> p.err]
             ELSE SummaryLoop(data, i + 1,
                      Accumulate(summary,
                                 format_date(p.val.start),
                                 num_minutes(Sub(p.val.end, p.val.start))))

EmptyMap == [k \in {} |-> 0]

build_summary(report_details) == SummaryLoop(report_details.data, 1, EmptyMap)

(* ------------------------- main.rs: bill report ------------------------ *)

\* The tiers with their boundaries one minute early.
calculate_billable_minutes_shifted(minutes) ==
    IF minutes \in 0..9 THEN 0
    ELSE IF minutes \in 10..59 THEN 60
    ELSE IF minutes \in 60..69 THEN minutes
    ELSE IF minutes \in 70..119 THEN 120
    ELSE minutes

calculate_billable_minutes(minutes) ==
    IF minutes \in 0..10 THEN 0
    ELSE IF minutes \in 11..60 THEN 60
    ELSE IF minutes \in 61..70 THEN minutes
    ELSE IF minutes \in 71..120 THEN 120
    ELSE minutes

\* The BillReportDay pushed for one (day, minutes) of the summary.
BillRow(day, minutes, client) ==
    LET billable_minutes == calculate_billable_minutes(minutes)
    IN  [date |-> day,
         actual_minutes |-> minutes,
         billed_minutes |-> billable_minutes,
         billed_amount |-> Frac(billable_minutes * client.hourly_rate, 60),
         billed |-> StrLe(day, client.last_billed_date)]

\* Vec::sort_by_key on the date: a stable insertion of each row in turn.
RECURSIVE InsertByDate(_, _)
InsertByDate(row, sorted) ==
    IF sorted = <<>> THEN <<row>>
    ELSE IF ~StrLe(sorted[1].date, row.date) THEN <<row>> \o sorted
    ELSE <<sorted[1]>> \o InsertByDate(row, Tail(sorted))

RECURSIVE SortFrom(_, _, _)
SortFrom(days, i, sorted) ==
    IF i > Len(days) THEN sorted
    ELSE SortFrom(days, i + 1, InsertByDate(days[i], sorted))

sort_by_date(days) == SortFrom(days, 1, <<>>)

\* build_bill_report; `order` is the order in which the HashMap's iteration
\* hands out the keys of the summary.
build_bill_report(order, summary, client) ==
    [days |-> sort_by_date([i \in 1..Len(order) |->
                               BillRow(order[i], summary[order[i]], client)])]

\* The fold of calculate_minutes over days[i..].
RECURSIVE FoldMinutes(_, _, _)
FoldMinutes(days, i, acc) ==
    IF i > Len(days) THEN acc
    ELSE FoldMinutes(days, i + 1,
                     IF days[i].billed THEN acc ELSE acc + days[i].billed_minutes)

calculate_minutes(bill_report) == FoldMinutes(bill_report.days, 1, 0)

\* main: `(total_minutes + 59) / 60` on i64.
total_hours_of(total_minutes) == RustDiv(total_minutes + 59, 60)

\* main: the amount printed, `total_hours * 30`.
total_amount_of(total_hours) == total_hours * FlatRate

(* -------------------------------- state -------------------------------- *)

VARIABLES
    \* main.rs
    stage,            \* how far main has come
    report_details,   \* the ReportDetails handed to build_summary
    client,           \* config.clients[client_name]
    summary,          \* the Result<Summary> of build_summary
    bill_report,      \* the BillReport of build_bill_report
    total_minutes,    \* main's total_minutes
    total_hours,      \* main's total_hours
    total_amount,     \* the amount main prints
    \* client.rs
    now_year,         \* chrono::Local::now().year()
    db,               \* the source: entries it holds for each year's window
    ry,               \* the ReportYear iterator
    ry_args,          \* the (current, until) ReportYear::new was called with
    yielded,          \* what the calls of ReportYear::next returned, in order
    pc,               \* position of get_billable_report
    window,           \* (since, until) of the get_year_data call in progress
    first_count,      \* response.total_count of the window's first page
    page,             \* get_year_data's page
    total_pages,      \* get_year_data's total_pages
    entries,          \* get_year_data's entries
    year_report,      \* what the last get_year_data call returned Ok
    full_report,      \* get_billable_report's full_report.data
    fetch_result,     \* the Result<ReportDetails> of get_billable_report
    requests          \* every make_request call so far, with what came back

mainVars == <<stage, report_details, client, summary, bill_report,
              total_minutes, total_hours, total_amount>>
fetchVars == <<now_year, db, pc, window, first_count, page, total_pages,
               entries, year_report, full_report, fetch_result, requests>>
iterVars == <<ry, ry_args, yielded>>
vars == <<mainVars, fetchVars, iterVars>>

\* A value not yet computed.
Nil == [nil |-> TRUE]

(* ------------------------------ inputs --------------------------------- *)

TS(mo, d, h, mi, s, off) ==
    [y |-> 2022, mo |-> mo, d |-> d, h |-> h, mi |-> mi, s |-> s, off |-> off]

NotADate == [text |-> "this string is not a date"]
AlsoNotADate == [text |-> "2022-13-01 noon"]

\* The time entries a report is drawn from.
EntryPool ==
    { [start |-> TS(1, 1, 0, 0, 0, 0),     end |-> TS(1, 1, 0, 10, 0, 0)],
      [start |-> TS(1, 1, 10, 0, 0, 0),    end |-> TS(1, 1, 11, 10, 0, 0)],
      [start |-> TS(2, 1, 15, 0, 0, 0),    end |-> TS(2, 1, 15, 52, 0, 0)],
      \* ends 90 seconds before it starts
      [start |-> TS(1, 2, 10, 1, 30, 0),   end |-> TS(1, 2, 10, 0, 0, 0)],
      \* ends two hours before it starts
      [start |-> TS(1, 2, 12, 0, 0, 0),    end |-> TS(1, 2, 10, 0, 0, 0)],
      \* starts on 01-01 in its own offset, on 01-02 in UTC
      [start |-> TS(1, 1, 23, 30, 0, 0 - 60), end |-> TS(1, 2, 0, 45, 30, 0)],
      [start |-> NotADate,                 end |-> TS(1, 1, 0, 10, 0, 0)],
      [start |-> TS(1, 1, 0, 10, 0, 0),    end |-> NotADate],
      \* a day that is not in the calendar, and an end that is no timestamp
      [start |-> TS(2, 30, 9, 0, 0, 0),    end |-> AlsoNotADate] }

RECURSIVE SeqsUpTo(_, _)
SeqsUpTo(S, n) ==
    IF n = 0 THEN {<<>>}
    ELSE LET shorter == SeqsUpTo(S, n - 1)
         IN  shorter \cup {Append(q, x) : q \in {r \in shorter : Len(r) = n - 1}, x \in S}

Str(y, mo, d) == Pad(y, 4) \o <<"-">> \o Pad(mo, 2) \o <<"-">> \o Pad(d, 2)

\* The clients of the configuration: hourly rates and last billed dates
\* (the empty string is the field's Default).
Clients ==
    [id : {"123"},
     hourly_rate : {30, 45},
     last_billed_date : {<<>>, Str(2021, 12, 31), Str(2022, 1, 1), Str(2022, 1, 2)}]

MainClients == {c \in Clients : c.last_billed_date \in {<<>>, Str(2022, 1, 1)}}

DayKeys == {Str(2022, 1, 1), Str(2022, 1, 2), Str(2022, 1, 3)}

\* Day totals of the summaries with several days.
DayTotals == {0 - 120, 5, 25, 80}

\* Summaries handed to build_bill_report: one day with any total of the
\* range, or any days of DayKeys with totals of DayTotals.
Summaries ==
    {(Str(2022, 1, 2) :> m) : m \in (0 - NegMinutes)..MaxMinutes}
    \cup UNION {[ks -> DayTotals] : ks \in SUBSET DayKeys}

(* ------------------------------- main.rs ------------------------------- *)

FetchIdle ==
    /\ now_year = StartYear
    /\ db = EmptyMap
    /\ pc = "idle"
    /\ window = Nil
    /\ first_count = 0
    /\ page = 0
    /\ total_pages = 0
    /\ entries = <<>>
    /\ year_report = Nil
    /\ full_report = <<>>
    /\ fetch_result = Nil
    /\ requests = <<>>

IterIdle ==
    /\ ry = Nil
    /\ ry_args = Nil
    /\ yielded = <<>>

MainIdle ==
    /\ stage = "idle"
    /\ report_details = Nil
    /\ client = Nil
    /\ summary = Nil
    /\ bill_report = Nil
    /\ total_minutes = 0
    /\ total_hours = 0
    /\ total_amount = 0

\* main after get_billable_report returned Ok(report_details).
InitMain ==
    /\ stage = "fetched"
    /\ report_details \in {[data |-> q] : q \in SeqsUpTo(EntryPool, MaxEntries)}
    /\ client \in MainClients
    /\ summary = Nil
    /\ bill_report = Nil
    /\ total_minutes = 0
    /\ total_hours = 0
    /\ total_amount = 0
    /\ FetchIdle
    /\ IterIdle

\* build_bill_report called on a summary, as build_bill_report_test calls it.
InitBill ==
    /\ stage = "summary"
    /\ report_details = Nil
    /\ client \in Clients
    /\ summary \in {[ok |-> TRUE, val |-> m] : m \in Summaries}
    /\ bill_report = Nil
    /\ total_minutes = 0
    /\ total_hours = 0
    /\ total_amount = 0
    /\ FetchIdle
    /\ IterIdle

\* main.rs:65: build_summary on the fetched report; an Err leaves main at `?`.
BuildSummary ==
    /\ stage = "fetched"
    /\ summary' = build_summary(report_details)
    /\ stage' = IF summary'.ok THEN "summary" ELSE "failed"
    /\ UNCHANGED <<report_details, client, bill_report, total_minutes,
                   total_hours, total_amount, fetchVars, iterVars>>

\* The orders in which a map with key set S can hand out its keys.
Orders(S) ==
    {o \in [1..Cardinality(S) -> S] : \A i, j \in 1..Cardinality(S) : o[i] = o[j] => i = j}

\* main.rs:66: build_bill_report on the summary.
BuildBillReport ==
    /\ stage = "summary"
    /\ \E order \in Orders(DOMAIN summary.val) :
           bill_report' = build_bill_report(order, summary.val, client)
    /\ stage' = "report"
    /\ UNCHANGED <<report_details, client, summary, total_minutes,
                   total_hours, total_amount, fetchVars, iterVars>>

\* main.rs:68-77: the totals main prints.
PrintTotals ==
    /\ stage = "report"
    /\ total_minutes' = calculate_minutes(bill_report)
    /\ total_hours' = total_hours_of(total_minutes')
    /\ total_amount' = total_amount_of(total_hours')
    /\ stage' = "printed"
    /\ UNCHANGED <<report_details, client, summary, bill_report,
                   fetchVars, iterVars>>

NextMain == BuildSummary \/ BuildBillReport \/ PrintTotals

NextBill == BuildBillReport \/ PrintTotals

SpecMain == InitMain /\ [][NextMain]_vars

SpecBill == InitBill /\ [][NextBill]_vars

(* ------------------------ client.rs: ReportYear ------------------------ *)

None == [some |-> FALSE]
Some(v) == [some |-> TRUE, val |-> v]

\* ReportYear::new: a missing `until` is the current year.
ReportYear_new(current, until, now) ==
    [current |-> current, until |-> IF until.some THEN until.val ELSE now]

\* ReportYear::next that stops when `current` has reached `until`.
ReportYear_next_stops_early(self) ==
    IF self.current >= self.until
    THEN [item |-> None, self |-> self]
    ELSE [item |-> Some(<<ToString(self.current) \o "-01-01",
                          ToString(self.current) \o "-12-31">>),
          self |-> [self EXCEPT !.current = @ + 1]]

\* ReportYear::next: the item returned and the iterator afterwards.
ReportYear_next(self) ==
    IF self.current > self.until
    THEN [item |-> None, self |-> self]
    ELSE [item |-> Some(<<ToString(self.current) \o "-01-01",
                          ToString(self.current) \o "-12-31">>),
          self |-> [self EXCEPT !.current = @ + 1]]

Years == FirstYear..(FirstYear + YearSpan)

\* An iterator built as test_year_iterator builds it, with any two years.
InitIter ==
    /\ ry_args \in {<<y0, Some(y1)>> : y0 \in Years, y1 \in Years}
    /\ ry = ReportYear_new(ry_args[1], ry_args[2], StartYear)
    /\ yielded = <<>>
    /\ MainIdle
    /\ FetchIdle

\* One call of next() on the iterator.
CallNext ==
    /\ ry # Nil
    /\ pc = "idle"
    /\ Len(yielded) < MaxCalls
    /\ LET r == ReportYear_next(ry)
       IN  /\ ry' = r.self
           /\ yielded' = Append(yielded, r.item)
    /\ UNCHANGED <<ry_args, mainVars, fetchVars>>

NextIter == CallNext

SpecIter == InitIter /\ [][NextIter]_vars

(* ---------------------- client.rs: fetching pages ---------------------- *)

\* Entries the source holds for page p of a window with `count` entries.
Expected(count, p) ==
    LET left == count - PageSize * (p - 1)
    IN  IF left <= 0 THEN 0 ELSE IF left > PageSize THEN PageSize ELSE left

\* What can come back from one make_request call for page p of year y:
\* no API token in the environment, a transport error, or a response with a
\* status and a body that decodes as a DetailsResponse or does not.  A body
\* that decodes reports the window's total_count and carries n entries: the
\* page's share, or (under status 200) none.
Outcomes(y, p) ==
    {[kind |-> "no_token"], [kind |-> "network_error"]}
    \cup {[kind |-> "response", status |-> st, decodable |-> FALSE] : st \in {200, 500}}
    \cup {[kind |-> "response", status |-> st, decodable |-> TRUE,
           total_count |-> db[y], n |-> Expected(db[y], p)] : st \in {200, 500}}
    \cup {[kind |-> "response", status |-> 200, decodable |-> TRUE,
           total_count |-> db[y], n |-> 0]}

\* The data of a decoded page: its entries, each known by where it came from.
PageData(y, p, n) == [i \in 1..n |-> [year |-> y, page |-> p, idx |-> i]]

\* make_request: Err without a token or on a transport error, otherwise
\* Ok(the body's text), whatever the status.
make_request(o) ==
    IF o.kind = "response"
    THEN [ok |-> TRUE, val |-> o]
    ELSE [ok |-> FALSE, err |-> o.kind]

\* serde_json::from_str::<DetailsResponse> on the text of a body.
from_str(y, p, body) ==
    IF body.decodable
    THEN [ok |-> TRUE,
          val |-> [data |-> PageData(y, p, body.n), total_count |-> body.total_count]]
    ELSE [ok |-> FALSE, err |-> "decode"]

\* make_request(..).and_then(|r| serde_json::from_str(&r))
FetchPage(y, p, o) ==
    LET r == make_request(o)
    IN  IF r.ok THEN from_str(y, p, r.val) ELSE r

\* total_pages without the page that holds the remainder.
TotalPagesRoundedDown(total_count) == total_count \div PageSize

\* total_pages as get_year_data computes it (u32 arithmetic, no overflow).
TotalPages(total_count) ==
    (total_count \div PageSize) + (IF total_count % PageSize > 0 THEN 1 ELSE 0)

\* Entries per window in the runs that may cover more than one window.
WindowCounts == {0, 51, 101}

\* get_billable_report about to start: ReportYear::new(2022, None), an empty
\* full_report, and a source holding some entries for each year up to the
\* current one (any number up to MaxTotalCount when 2022 is the only window).
InitFetch ==
    /\ now_year \in (StartYear - 1)..(StartYear + MaxYearsAhead)
    /\ db \in {f \in [StartYear..now_year -> 0..MaxTotalCount] :
                 now_year > StartYear => \A y \in DOMAIN f : f[y] \in WindowCounts}
    /\ ry_args = <<StartYear, None>>
    /\ ry = ReportYear_new(StartYear, None, now_year)
    /\ yielded = <<>>
    /\ pc = "next"
    /\ window = Nil
    /\ first_count = 0
    /\ page = 0
    /\ total_pages = 0
    /\ entries = <<>>
    /\ year_report = Nil
    /\ full_report = <<>>
    /\ fetch_result = Nil
    /\ requests = <<>>
    /\ MainIdle

\* The for loop of get_billable_report takes the next window and
\* get_year_data makes its first request (no page parameter).
FirstPage ==
    /\ pc = "next"
    /\ LET r == ReportYear_next(ry)
           y == ry.current
       IN  /\ r.item.some
           /\ ry' = r.self
           /\ yielded' = Append(yielded, r.item)
           /\ window' = r.item.val
           /\ \E o \in Outcomes(y, 1) :
                LET response == FetchPage(y, 1, o)
                IN  /\ requests' = Append(requests,
                           [year |-> y, since |-> r.item.val[1], until |-> r.item.val[2],
                            page |-> None, outcome |-> o])
                    /\ IF ~response.ok
                       THEN /\ fetch_result' = [ok |-> FALSE, err |-> response.err]
                            /\ pc' = "done"
                            /\ UNCHANGED <<first_count, page, total_pages, entries,
                                           year_report, full_report>>
                       ELSE /\ first_count' = response.val.total_count
                            /\ IF response.val.total_count > PageSize
                               THEN /\ page' = 2
                                    /\ total_pages' = TotalPages(response.val.total_count)
                                    /\ entries' = response.val.data
                                    /\ pc' = "pages"
                                    /\ UNCHANGED <<year_report, full_report, fetch_result>>
                               ELSE /\ year_report' = [since |-> r.item.val[1],
                                                       data |-> response.val.data]
                                    /\ full_report' = full_report \o response.val.data
                                    /\ entries' = <<>>
                                    /\ pc' = "next"
                                    /\ UNCHANGED <<page, total_pages, fetch_result>>
    /\ UNCHANGED <<now_year, db, ry_args, mainVars>>

\* One turn of get_year_data's while loop: the request for `page`; after the
\* last page get_year_data returns and the window is appended.
NextPage ==
    /\ pc = "pages"
    /\ page <= total_pages
    /\ LET y == ry.current - 1
       IN  \E o \in Outcomes(y, page) :
             LET response == FetchPage(y, page, o)
             IN  /\ requests' = Append(requests,
                        [year |-> y, since |-> window[1], until |-> window[2],
                         page |-> Some(ToString(page)), outcome |-> o])
                 /\ IF ~response.ok
                    THEN /\ fetch_result' = [ok |-> FALSE, err |-> response.err]
                         /\ pc' = "done"
                         /\ UNCHANGED <<page, entries, year_report, full_report>>
                    ELSE /\ page' = page + 1
                         /\ IF page + 1 <= total_pages
                            THEN /\ entries' = entries \o response.val.data
                                 /\ pc' = "pages"
                                 /\ UNCHANGED <<year_report, full_report>>
                            ELSE /\ year_report' = [since |-> window[1],
                                                    data |-> entries \o response.val.data]
                                 /\ full_report' = full_report \o entries \o response.val.data
                                 /\ entries' = <<>>
                                 /\ pc' = "next"
                         /\ UNCHANGED fetch_result
    /\ UNCHANGED <<now_year, db, ry, ry_args, yielded, window, first_count,
                   total_pages, mainVars>>

\* The iterator is exhausted: get_billable_report returns Ok(full_report).
Finish ==
    /\ pc = "next"
    /\ LET r == ReportYear_next(ry)
       IN  /\ ~r.item.some
           /\ ry' = r.self
           /\ yielded' = Append(yielded, r.item)
    /\ fetch_result' = [ok |-> TRUE, val |-> [data |-> full_report]]
    /\ pc' = "done"
    /\ UNCHANGED <<now_year, db, ry_args, window, first_count, page, total_pages,
                   entries, year_report, full_report, requests, mainVars>>

NextFetch == FirstPage \/ NextPage \/ Finish

SpecFetch == InitFetch /\ [][NextFetch]_vars

(* ===================== properties of main.rs ========================== *)

Built == stage \in {"report", "printed"}

Rows == {bill_report.days[i] : i \in 1..Len(bill_report.days)}

LexLeq(a, b) ==
    \/ /\ Len(a) <= Len(b)
       /\ \A k \in 1..Len(a) : a[k] = b[k]
    \/ \E k \in 1..Len(a) :
           /\ k <= Len(b)
           /\ \A j \in 1..(k - 1) : a[j] = b[j]
           /\ Ord(a[k]) < Ord(b[k])

\* C6: the summary {2022-01-01: 5, 2022-01-02: 25, 2022-01-03: 80} with
\* hourly rate 30 and last billed date 2022-01-01 gives the rows
\* (01-01, 5, 0, 0.0, billed), (01-02, 25, 60, 30.0, unbilled),
\* (01-03, 80, 80, 40.0, unbilled) in ascending date order, total minutes 140
\* and total hours 3.
C6_Scenario ==
    /\ summary = [ok |-> TRUE,
                  val |-> (Str(2022, 1, 1) :> 5 @@ Str(2022, 1, 2) :> 25
                           @@ Str(2022, 1, 3) :> 80)]
    /\ client.hourly_rate = 30
    /\ client.last_billed_date = Str(2022, 1, 1)

C6_EndToEnd ==
    C6_Scenario =>
        /\ Built =>
               bill_report.days =
                   << [date |-> Str(2022, 1, 1), actual_minutes |-> 5,
                       billed_minutes |-> 0, billed_amount |-> <<0, 1>>,
                       billed |-> TRUE],
                      [date |-> Str(2022, 1, 2), actual_minutes |-> 25,
                       billed_minutes |-> 60, billed_amount |-> <<30, 1>>,
                       billed |-> FALSE],
                      [date |-> Str(2022, 1, 3), actual_minutes |-> 80,
                       billed_minutes |-> 80, billed_amount |-> <<40, 1>>,
                       billed |-> FALSE] >>
        /\ stage = "printed" => (total_minutes = 140 /\ total_hours = 3)

\* C7: the report has exactly one row per day of the summary, none dropped,
\* and a row is billed iff its day is lexicographically at or before the
\* client's last billed date; the cutoff day itself is billed, the next not.
C7_BilledIffAtOrBeforeCutoff ==
    Built =>
        /\ Len(bill_report.days) = Cardinality(DOMAIN summary.val)
        /\ {r.date : r \in Rows} = DOMAIN summary.val
        /\ \A r \in Rows : r.billed <=> LexLeq(r.date, client.last_billed_date)
        /\ client.last_billed_date = Str(2022, 1, 1) =>
               \A r \in Rows :
                   /\ r.date = Str(2022, 1, 1) => r.billed
                   /\ r.date = Str(2022, 1, 2) => ~r.billed

C7_Witness ==
    /\ Built
    /\ \E r, q \in Rows :
           /\ r.date = client.last_billed_date /\ r.billed
           /\ q.date = Str(2022, 1, 3) /\ ~q.billed

\* Sum of f over the rows days[i..].
RECURSIVE UnbilledMinutes(_, _)
UnbilledMinutes(days, i) ==
    IF i > Len(days) THEN 0
    ELSE (IF days[i].billed THEN 0 ELSE days[i].billed_minutes)
         + UnbilledMinutes(days, i + 1)

RECURSIVE UnbilledAmount(_, _)
UnbilledAmount(days, i) ==
    IF i > Len(days) THEN <<0, 1>>
    ELSE IF days[i].billed THEN UnbilledAmount(days, i + 1)
    ELSE FracAdd(days[i].billed_amount, UnbilledAmount(days, i + 1))

\* The least integer h with 60 * h >= t.
CeilHours(t) == CHOOSE h \in (0 - Abs(t))..Abs(t) : 60 * h >= t /\ 60 * (h - 1) < t

\* C8: for every report, also one with negative day totals, the total hours
\* are ceil(totalMinutes / 60) with totalMinutes the sum of the billed
\* minutes of the unbilled rows; never below totalMinutes / 60.
C8_TotalHoursIsCeiling ==
    stage = "printed" =>
        /\ total_minutes = UnbilledMinutes(bill_report.days, 1)
        /\ total_hours = CeilHours(total_minutes)
        /\ 60 * total_hours >= total_minutes

\* C9: the total amount the program reports is the sum of the billed amounts
\* of the unbilled rows, not a flat rate times the rounded-up hours.
C9_TotalAmountIsPerDaySum ==
    stage = "printed" =>
        <<total_amount, 1>> = UnbilledAmount(bill_report.days, 1)

(* ------------------------ build_summary (C2, C5) ----------------------- *)

\* A field that spells out a timestamp: every component in its range.
WellFormed(f) ==
    /\ "y" \in DOMAIN f
    /\ f.mo \in 1..12
    /\ f.d >= 1
    /\ f.d <= (CASE f.mo \in {1, 3, 5, 7, 8, 10, 12} -> 31
                 [] f.mo \in {4, 6, 9, 11} -> 30
                 [] OTHER -> IF IsLeap(f.y) THEN 29 ELSE 28)
    /\ f.h \in 0..23 /\ f.mi \in 0..59 /\ f.s \in 0..59

Data == report_details.data

AllWellFormed ==
    \A i \in 1..Len(Data) : WellFormed(Data[i].start) /\ WellFormed(Data[i].end)

\* The date a field's text spells out.
SpelledDate(f) == Str(f.y, f.mo, f.d)

\* Day of the year of a field's date, counted through the months before it.
RECURSIVE DaysBefore(_, _)
DaysBefore(y, mo) ==
    IF mo = 1 THEN 0 ELSE DaysBefore(y, mo - 1) + DaysInMonth(y, mo - 1)

\* Seconds from the start of the field's year (in UTC) to the field's instant.
SecondsInYear(f) ==
    (DaysBefore(f.y, f.mo) + f.d - 1) * 86400 + f.h * 3600 + f.mi * 60 + f.s
    - f.off * 60

\* (end - start) in seconds, for two fields of the same year.
Seconds(e) == SecondsInYear(e.end) - SecondsInYear(e.start)

FloorMinutes(e) == Seconds(e) \div 60

TruncMinutes(e) ==
    IF Seconds(e) >= 0 THEN Seconds(e) \div 60 ELSE 0 - ((0 - Seconds(e)) \div 60)

RECURSIVE DaySum(_, _, _, _)
DaySum(Minutes(_), data, day, i) ==
    IF i > Len(data) THEN 0
    ELSE (IF SpelledDate(data[i].start) = day THEN Minutes(data[i]) ELSE 0)
         + DaySum(Minutes, data, day, i + 1)

SummaryIs(Minutes(_)) ==
    /\ summary.ok
    /\ DOMAIN summary.val = {SpelledDate(Data[i].start) : i \in 1..Len(Data)}
    /\ \A day \in DOMAIN summary.val :
           summary.val[day] = DaySum(Minutes, Data, day, 1)

\* C2 as stated: when every start and end parses, the summary's keys are
\* the dates of the starts in their own offsets and a day's value is the sum
\* of floor(seconds / 60) of the entries starting on it, negative ones too.
C2_FloorSum ==
    (stage # "fetched" /\ AllWellFormed) => SummaryIs(FloorMinutes)

\* C2 amended: the same with each entry's seconds / 60 truncated toward zero
\* (floor for an entry that ends at or after its start); the three entries
\* of 10, 70 and 52 minutes give {2022-01-01: 80, 2022-02-01: 52}.
C2_TruncSum ==
    (stage # "fetched" /\ AllWellFormed) =>
        /\ SummaryIs(TruncMinutes)
        /\ Data = << [start |-> TS(1, 1, 0, 0, 0, 0),  end |-> TS(1, 1, 0, 10, 0, 0)],
                     [start |-> TS(1, 1, 10, 0, 0, 0), end |-> TS(1, 1, 11, 10, 0, 0)],
                     [start |-> TS(2, 1, 15, 0, 0, 0), end |-> TS(2, 1, 15, 52, 0, 0)] >>
           => summary.val = (Str(2022, 1, 1) :> 80 @@ Str(2022, 2, 1) :> 52)

C2_Witness ==
    /\ stage = "summary"
    /\ AllWellFormed
    /\ \E i, j \in 1..Len(Data) :
           /\ Seconds(Data[i]) < 0 /\ Seconds(Data[i]) % 60 # 0
           /\ Data[j].start.off # 0
    /\ \E day \in DOMAIN summary.val : summary.val[day] < 0

\* C5: if some entry has a start or end that is no valid timestamp,
\* build_summary fails at the first such entry with an error that names an
\* offending field of it and carries the field's raw text, and no summary,
\* not even of the valid entries before it, is returned.
C5_FailsAtFirstBadEntry ==
    (stage # "fetched" /\ ~AllWellFormed) =>
        LET bad == CHOOSE i \in 1..Len(Data) :
                       /\ ~(WellFormed(Data[i].start) /\ WellFormed(Data[i].end))
                       /\ \A j \in 1..(i - 1) :
                              WellFormed(Data[j].start) /\ WellFormed(Data[j].end)
        IN  /\ ~summary.ok
            /\ "val" \notin DOMAIN summary
            /\ \/ /\ ~WellFormed(Data[bad].start)
                  /\ summary.err = <<"Failed to parse start date: ", Data[bad].start>>
               \/ /\ ~WellFormed(Data[bad].end)
                  /\ summary.err = <<"Failed to parse end date: ", Data[bad].end>>
            /\ stage = "failed"
            /\ bill_report = Nil

C5_Witness ==
    /\ stage = "failed"
    /\ Len(Data) >= 2
    /\ WellFormed(Data[1].start) /\ WellFormed(Data[1].end)
    /\ ~WellFormed(Data[2].end)
    /\ summary.err[1] = "Failed to parse end date: "

(* ===================== properties of client.rs ======================== *)

\* The pair next() yields for year y.
YearPair(y) == <<ToString(y) \o "-01-01", ToString(y) \o "-12-31">>

\* C10: the calls of next() on ReportYear::new(Y0, Some(Y1)) yield the pairs
\* ("<y>-01-01", "<y>-12-31") for y = Y0, ..., Y1 in ascending order
\* (Y1 - Y0 + 1 of them when Y0 <= Y1, one when Y0 = Y1), and None on every
\* call after them.
C10_WindowSequence ==
    (pc = "idle" /\ ry # Nil) =>
        LET Y0 == ry_args[1]
            Y1 == ry_args[2].val
            n  == IF Y0 <= Y1 THEN Y1 - Y0 + 1 ELSE 0
        IN  /\ \A k \in 1..Len(yielded) :
                   yielded[k] = IF k <= n THEN Some(YearPair(Y0 + k - 1)) ELSE None
            /\ (Y0 = Y1 /\ Len(yielded) >= 2) =>
                   (yielded[1].some /\ ~yielded[2].some)
            /\ (Y0 = 2018 /\ Y1 = 2022 /\ Len(yielded) >= 6) =>
                   SubSeq(yielded, 1, 6) =
                       << Some(<<"2018-01-01", "2018-12-31">>),
                          Some(<<"2019-01-01", "2019-12-31">>),
                          Some(<<"2020-01-01", "2020-12-31">>),
                          Some(<<"2021-01-01", "2021-12-31">>),
                          Some(<<"2022-01-01", "2022-12-31">>),
                          None >>

C10_Witness ==
    /\ pc = "idle" /\ ry # Nil
    /\ ry_args = <<2018, Some(2022)>>
    /\ Len(yielded) = 7
    /\ yielded[5].some /\ ~yielded[6].some /\ ~yielded[7].some

\* The requests made for the window that starts at `since`, in order.
RequestsOf(since) == SelectSeq(requests, LAMBDA q : q.since = since)

\* The least k with PageSize * k >= t.
CeilPages(t) == CHOOSE k \in 0..t : PageSize * k >= t /\ PageSize * (k - 1) < t

\* The entries of the decoded pages w[k..], one page after the other.
RECURSIVE Merged(_, _)
Merged(w, k) ==
    IF k > Len(w) THEN <<>>
    ELSE PageData(w[k].year, k, w[k].outcome.n) \o Merged(w, k + 1)

\* C3: a get_year_data call that returns has made exactly
\* max(1, ceil(total_count / 50)) requests for its window, total_count being
\* what the first page reported: the first without a page parameter, then
\* pages 2..ceil(total_count / 50) once each in ascending order; it returns
\* the pages' entries in page order, and total_count entries when every page
\* carried its share (127 gives three requests and 127 entries).
C3_Pagination ==
    year_report # Nil =>
        LET w  == RequestsOf(year_report.since)
            tc == w[1].outcome.total_count
            N  == IF CeilPages(tc) < 1 THEN 1 ELSE CeilPages(tc)
        IN  /\ Len(w) = N
            /\ w[1].page = None
            /\ \A k \in 2..Len(w) : w[k].page = Some(ToString(k))
            /\ year_report.data = Merged(w, 1)
            /\ (\A k \in 1..Len(w) : w[k].outcome.n = Expected(tc, k)) =>
                   Len(year_report.data) = tc
            /\ tc = 127 => Len(w) = 3

C3_Witness ==
    /\ year_report # Nil
    /\ Len(RequestsOf(year_report.since)) = 3
    /\ RequestsOf(year_report.since)[1].outcome.total_count = 127
    /\ Len(year_report.data) = 127
    /\ pc = "done" /\ fetch_result.ok

\* A request that failed: a transport error, a status outside 2xx, or a
\* body that does not decode.
Failed(q) ==
    \/ q.outcome.kind = "network_error"
    \/ /\ q.outcome.kind = "response"
       /\ (q.outcome.status \notin 200..299 \/ ~q.outcome.decodable)

\* C4: if a page request of any window fails, get_billable_report ends with
\* an error: nothing is returned as a report, the request is not repeated and
\* no request follows it.
C4_FailFast ==
    \A k \in 1..Len(requests) :
        Failed(requests[k]) =>
            /\ k = Len(requests)
            /\ pc = "done"
            /\ ~fetch_result.ok
            /\ "val" \notin DOMAIN fetch_result

=============================================================================
